---- MODULE Spec2Model ----
(***************************************************************************)
(* Model of exo_escape_velocity.py: the driver under __main__, the two     *)
(* retrieval functions get_exodataset / get_vo_exodataset and the          *)
(* calculator calc_escape_velocity.                                        *)
(*                                                                         *)
(* Floating point.  A finite double is modelled as a decimal float         *)
(* [cls |-> "fin", m, e] standing for m * 10^e with the mantissa kept to   *)
(* four significant digits (truncated after every operation), so that      *)
(* every product stays inside TLC's 32 bit integers.  "inf" and "nan" are  *)
(* the IEEE specials.  A Python value carries its run-time type t:         *)
(*   "float"   a Python float/int (what response.json() yields)            *)
(*   "None"    JSON null                                                   *)
(*   "np"      a numpy.float64 (what an astropy table row yields)          *)
(*   "masked"  numpy.ma.masked (a masked cell of an astropy table)         *)
(*   "complex" a Python complex (re, im)                                   *)
(***************************************************************************)
EXTENDS Integers, Sequences, FiniteSets, TLC

VARIABLES
    archive,          \* rows of the remote table that satisfy the query's WHERE
    pc,               \* position of the program
    use_pyvo,         \* line 154
    select_specified_rows, \* the row count the caller asks for (0: all rows)
    url,              \* the request built by get_exodataset / the ADQL query
    status,           \* response.status_code (0: no response yet)
    results,          \* the batch handed to calc_escape_velocity
    earth_units_flag, \* argument of calc_escape_velocity
    planet_data,      \* local list of calc_escape_velocity
    i,                \* records of the batch the loop has finished
    retval,           \* what calc_escape_velocity returned
    exc,              \* the exception that ended the program ("" if none)
    exit_code,        \* argument of sys.exit (0: not called)
    stdout,           \* what was printed, in order
    calls,            \* invocations of calc_escape_velocity so far
    prev              \* outcome of the previous invocation (history)

vars == <<archive, pc, use_pyvo, select_specified_rows, url, status, results, earth_units_flag,
          planet_data, i, retval, exc, exit_code, stdout, calls, prev>>

\* ------------------------------------------------------------- bounds
MaxLen == 2      \* longest remote table
MaxTop == 2      \* largest select_specified_rows
MaxCalls == 2    \* invocations of calc_escape_velocity on one batch

\* ------------------------------------------------- decimal floats
Abs(n) == IF n < 0 THEN 0 - n ELSE n
Sgn(n) == IF n < 0 THEN 0 - 1 ELSE 1

RECURSIVE NormPos(_, _)
NormPos(a, e) ==
    IF a = 0 THEN [cls |-> "fin", m |-> 0, e |-> 0]
    ELSE IF a >= 10000 THEN NormPos(a \div 10, e + 1)
    ELSE IF a < 1000 THEN NormPos(a * 10, e - 1)
    ELSE [cls |-> "fin", m |-> a, e |-> e]

\* m * 10^e rounded (towards zero) to four significant digits
Flt(m, e) ==
    LET r == NormPos(Abs(m), e)
    IN  [cls |-> "fin", m |-> Sgn(m) * r.m, e |-> r.e]

Zero == Flt(0, 0)
Inf == [cls |-> "inf", m |-> 0, e |-> 0]
NaN == [cls |-> "nan", m |-> 0, e |-> 0]

FMul(a, b) ==
    IF a.cls = "nan" \/ b.cls = "nan" THEN NaN
    ELSE IF a.cls = "inf" \/ b.cls = "inf"
         THEN (IF (a.m = 0 /\ a.cls = "fin") \/ (b.m = 0 /\ b.cls = "fin") THEN NaN ELSE Inf)
    ELSE Flt(a.m * b.m, a.e + b.e)

\* IEEE division by a non-zero finite b
FDiv(a, b) ==
    IF a.cls # "fin" THEN a
    ELSE Flt(Sgn(a.m) * Sgn(b.m) * ((Abs(a.m) * 10000) \div Abs(b.m)), a.e - b.e - 4)

RECURSIVE ISqrtIter(_, _, _)
ISqrtIter(n, lo, hi) ==
    IF lo >= hi THEN lo
    ELSE LET mid == (lo + hi + 1) \div 2
         IN  IF mid * mid <= n THEN ISqrtIter(n, mid, hi) ELSE ISqrtIter(n, lo, mid - 1)

ISqrt(n) == ISqrtIter(n, 0, 31622)

\* square root of a finite a >= 0
FSqrt(a) ==
    IF a.cls # "fin" THEN a
    ELSE LET odd == (a.e % 2) = 1
             mm == IF odd THEN a.m * 10 ELSE a.m
             ee == IF odd THEN a.e - 1 ELSE a.e
         IN  Flt(ISqrt(mm * 10000), (ee - 4) \div 2)

FNeg(a) == [a EXCEPT !.m = 0 - a.m]

\* ------------------------------------------------- Python values
PyFloat(x) == [t |-> "float", re |-> x, im |-> Zero]
NpFloat(x) == [t |-> "np", re |-> x, im |-> Zero]
PyNone == [t |-> "None", re |-> Zero, im |-> Zero]
Masked == [t |-> "masked", re |-> Zero, im |-> Zero]
PyComplex(x, y) == [t |-> "complex", re |-> x, im |-> y]

\* the outcome of evaluating an expression: a value or a raised exception
Ok(v) == [exc |-> "", val |-> v]
Raise(e) == [exc |-> e, val |-> PyNone]

\* a * b where b is a Python float (lines 124-128, 131)
PyMul(a, b) ==
    IF a.t = "None" THEN Raise("TypeError")
    ELSE IF a.t = "masked" THEN Ok(Masked)
    ELSE IF a.t = "np" THEN Ok(NpFloat(FMul(a.re, b.re)))
    ELSE Ok(PyFloat(FMul(a.re, b.re)))

\* the slip of line 131 that divides the radius by the mass
PyDivSwapped(a, b) ==
    IF a.t = "masked" \/ b.t = "masked" THEN Ok(Masked)
    ELSE IF a.re.m = 0
         THEN (IF a.t = "float" /\ b.t = "float" THEN Raise("ZeroDivisionError")
               ELSE IF b.re.m = 0 THEN Ok(NpFloat(NaN)) ELSE Ok(NpFloat(Inf)))
    ELSE IF a.t = "np" \/ b.t = "np" THEN Ok(NpFloat(FDiv(b.re, a.re)))
    ELSE Ok(PyFloat(FDiv(b.re, a.re)))

\* a / b (line 131).  Two Python floats: a zero divisor raises.  With a
\* numpy.float64 operand: IEEE, a zero divisor yields inf or nan (the dividend
\* is never negative here: the archive holds no negative mass).
PyDiv(a, b) ==
    IF a.t = "masked" \/ b.t = "masked" THEN Ok(Masked)
    ELSE IF b.re.m = 0
         THEN (IF a.t = "float" /\ b.t = "float" THEN Raise("ZeroDivisionError")
               ELSE IF a.re.m = 0 THEN Ok(NpFloat(NaN)) ELSE Ok(NpFloat(Inf)))
    ELSE IF a.t = "np" \/ b.t = "np" THEN Ok(NpFloat(FDiv(a.re, b.re)))
    ELSE Ok(PyFloat(FDiv(a.re, b.re)))

\* cos(pi/2) as the C library computes it: 6.123e-17
CosHalfPi == Flt(6123, 0 - 20)

\* a ** (1/2) (line 131).  A negative Python float has a complex power,
\* |a|^0.5 * (cos(pi/2) + sin(pi/2) j); a negative numpy.float64 yields nan.
PyPowHalf(a) ==
    IF a.t = "masked" THEN Masked
    ELSE IF a.re.cls # "fin" THEN a
    ELSE IF a.re.m >= 0 THEN [a EXCEPT !.re = FSqrt(a.re)]
    ELSE IF a.t = "np" THEN NpFloat(NaN)
    ELSE LET r == FSqrt(FNeg(a.re)) IN PyComplex(FMul(r, CosHalfPi), r)

\* a /= 1000 (line 132)
PyDivBy1000(a) ==
    IF a.t = "masked" THEN Masked
    ELSE [a EXCEPT !.re = FDiv(a.re, Flt(1000, 0)), !.im = FDiv(a.im, Flt(1000, 0))]

\* lines 136-137: np.float64(v) unless v is a numpy floating already.
\* np.float64 of a complex keeps the real part (ComplexWarning), of a masked
\* constant it is nan (float(masked) warns and returns nan).
ToNpFloat64(a) ==
    IF a.t = "np" THEN a
    ELSE IF a.t = "masked" THEN NpFloat(NaN)
    ELSE NpFloat(a.re)

\* ------------------------------------------------- physical constants
earth_mass == PyFloat(Flt(597219, 19))
earth_radius == PyFloat(Flt(6371, 3))
jupiter_mass == PyFloat(Flt(189813, 22))
jupiter_radius == PyFloat(Flt(69911, 3))
g == PyFloat(Flt(6674, 0 - 14))

\* ------------------------------------------------- calc_escape_velocity
\* the slip of line 123 that tests `earth_units_flag is True`
TruthyStrict(flag) == flag = "True"

\* truth value of the flag object in `if earth_units_flag:` (line 123)
Truthy(flag) == flag \notin {"False", "None", ""}

\* the slip of lines 124/127 that takes the other system's mass constant
MassConstSwapped(flag) == IF Truthy(flag) THEN jupiter_mass ELSE earth_mass

MassKey(flag) == IF Truthy(flag) THEN "pl_bmasse" ELSE "pl_bmassj"
RadiusKey(flag) == IF Truthy(flag) THEN "pl_rade" ELSE "pl_radj"
MassConst(flag) == IF Truthy(flag) THEN earth_mass ELSE jupiter_mass
RadiusConst(flag) == IF Truthy(flag) THEN earth_radius ELSE jupiter_radius

\* planet[key] * const (lines 124-128): a missing key raises KeyError
Scaled(planet, key, const) ==
    IF key \notin DOMAIN planet THEN Raise("KeyError") ELSE PyMul(planet[key], const)

\* escape_velocity after lines 131-137, given mass and radius
VelocityOf(mass, radius) ==
    LET twoG == PyMul(g, PyFloat(Flt(2, 0))).val
        num == PyMul(mass, twoG).val
        q == PyDiv(num, radius)
    IN  IF q.exc # "" THEN q
        ELSE Ok(ToNpFloat64(PyDivBy1000(PyPowHalf(q.val))))

\* one pass of the loop body (lines 120-139) on one record: the entry that is
\* appended, or the exception raised
LoopBody(planet, flag) ==
    LET mass == Scaled(planet, MassKey(flag), MassConst(flag))
        radius == Scaled(planet, RadiusKey(flag), RadiusConst(flag))
    IN  IF mass.exc # "" THEN mass
        ELSE IF radius.exc # "" THEN radius
        ELSE LET v == VelocityOf(mass.val, radius.val)
             IN  IF v.exc # "" THEN v
                 ELSE IF "pl_name" \notin DOMAIN planet THEN Raise("KeyError")
                 ELSE Ok(<<planet["pl_name"], v.val>>)

\* ------------------------------------------------- the remote table
Cell(n) == [null |-> FALSE, n |-> n]
Null == [null |-> TRUE, n |-> 0]

ArchiveRow(name, me, re, mj, rj) ==
    [pl_name |-> name, pl_bmasse |-> me, pl_rade |-> re, pl_bmassj |-> mj, pl_radj |-> rj]

\* rows the archive may hold: complete ones, ones with a missing (null) mass or
\* radius, a zero or negative radius, a zero mass; two rows share a name
Rows ==
    { ArchiveRow("K2-18 b", Cell(1), Cell(1), Cell(1), Cell(1)),
      ArchiveRow("K2-18 b", Cell(4), Cell(1), Null, Null),
      ArchiveRow("GJ 1214 b", Null, Cell(1), Cell(4), Cell(1)),
      ArchiveRow("GJ 1214 b", Cell(1), Null, Cell(1), Null),
      ArchiveRow("WASP-12 b", Cell(1), Cell(0), Cell(1), Cell(0)),
      ArchiveRow("WASP-12 b", Cell(4), Cell(0 - 1), Cell(4), Cell(0 - 1)),
      ArchiveRow("HD 189733 b", Cell(0), Cell(1), Cell(0), Cell(4)),
      ArchiveRow("HD 189733 b", Cell(0), Cell(0), Cell(0), Cell(0 - 1)) }

Archives == UNION { [1..n -> Rows] : n \in 0..MaxLen }

Range(f) == { f[k] : k \in DOMAIN f }
Min(a, b) == IF a < b THEN a ELSE b

\* the columns a caller asks for: line 145, and the three of the query of line 151
select_args == <<"pl_name", "pl_rade", "pl_radj", "pl_bmasse", "pl_bmassj">>
query_columns == <<"pl_name", "pl_rade", "pl_bmasse">>
SelectLists == {select_args, query_columns}

nasa_table == "pscomppars"
where_args == [sy_pnum |-> "1", pl_ntranspec |-> "2"]

\* values a caller may pass as earth_units_flag: the two booleans, and objects
\* that are no boolean (a unit-system name, None)
FlagValues == {"True", "False", "Saturn", "None"}

\* ------------------------------------------------- get_exodataset
\* the slip of lines 46-51 that never writes the "top" phrase
select_string_NoTop(select_strs, rows) == [top |-> <<>>, cols |-> select_strs]

\* lines 46-51: the SELECT phrase; "top" is present only for a non-zero count
select_string(select_strs, rows) ==
    IF rows # 0
    THEN [top |-> <<rows>>, cols |-> select_strs]
    ELSE [top |-> <<>>, cols |-> select_strs]

\* lines 57-60: the WHERE phrase, the key=value pairs joined by "and"
where_string(where_dict) == { <<k, where_dict[k]>> : k \in DOMAIN where_dict }

\* line 62
BuildUrl(select_strs, table_name, where_dict, rows) ==
    [select |-> select_string(select_strs, rows),
     from |-> table_name,
     where |-> where_string(where_dict),
     format |-> "json"]

\* the rows the TAP service answers a query with: the first `top` rows of the
\* table when the query has a TOP phrase, all of them otherwise
Answer(query) ==
    IF query.select.top # <<>>
    THEN SubSeq(archive, 1, Min(query.select.top[1], Len(archive)))
    ELSE archive

\* response.json() (line 80): one dict per row, the selected columns as keys,
\* a null cell as None, a number as a Python float
JsonRow(row, cols) ==
    [k \in Range(cols) |->
        IF k = "pl_name" THEN row[k]
        ELSE IF row[k].null THEN PyNone ELSE PyFloat(Flt(row[k].n, 0))]

\* result.to_table() (line 21): a null cell is masked, a number a numpy.float64
TableRow(row, cols) ==
    [k \in Range(cols) |->
        IF k = "pl_name" THEN row[k]
        ELSE IF row[k].null THEN Masked ELSE NpFloat(Flt(row[k].n, 0))]

Out(tag, data) == [tag |-> tag, data |-> data]
NoReturn == [kind |-> "not returned", items |-> <<>>]
ReturnNone == [kind |-> "None", items |-> <<>>]
NoPrev == [pc |-> "", data |-> <<>>, exc |-> "", i |-> 0]
NoUrl == BuildUrl(<<>>, "", <<>>, 0)

Init ==
    /\ archive \in Archives
    /\ pc = "main"
    /\ use_pyvo = FALSE
    /\ select_specified_rows = 0
    /\ url = NoUrl
    /\ status = 0
    /\ results = <<>>
    /\ earth_units_flag = "True"
    /\ planet_data = <<>>
    /\ i = 0
    /\ retval = NoReturn
    /\ exc = ""
    /\ exit_code = 0
    /\ stdout = <<>>
    /\ calls = 0
    /\ prev = NoPrev

\* lines 154, 160 and 41-72: the requests method is chosen, the URL is built,
\* printed and sent
Main_GetExodataset ==
    /\ pc = "main"
    /\ \E cols \in SelectLists, n \in 0..MaxTop :
          /\ select_specified_rows' = n
          /\ url' = BuildUrl(cols, nasa_table, where_args, n)
          /\ stdout' = Append(stdout, Out("url", <<>>))
    /\ use_pyvo' = FALSE
    /\ pc' = "requesting"
    /\ UNCHANGED <<archive, status, results, earth_units_flag, planet_data, i,
                   retval, exc, exit_code, calls, prev>>

\* lines 72-80, 88: status 200, the body is parsed and returned
Get_Status200 ==
    /\ pc = "requesting"
    /\ status' = 200
    /\ results' = [k \in DOMAIN Answer(url) |-> JsonRow(Answer(url)[k], url.select.cols)]
    /\ stdout' = Append(stdout, Out("Finished getting request", <<>>))
    /\ pc' = "fetched"
    /\ UNCHANGED <<archive, use_pyvo, select_specified_rows, url, earth_units_flag, planet_data, i,
                   retval, exc, exit_code, calls, prev>>

\* the slip of lines 81-83 that reports the status and goes on (no sys.exit),
\* returning an empty batch
Get_StatusErrorNoExit ==
    /\ pc = "requesting"
    /\ \E code \in {400, 404, 500, 503} :
          /\ status' = code
          /\ stdout' = stdout \o <<Out("Finished getting request", <<>>),
                                   Out("Error", <<code>>)>>
    /\ pc' = "fetched"
    /\ UNCHANGED <<archive, use_pyvo, select_specified_rows, url, results,
                   earth_units_flag, planet_data, i, retval, exc, exit_code, calls, prev>>

\* lines 81-83: any other status is reported and the program exits with 1
Get_StatusError ==
    /\ pc = "requesting"
    /\ \E code \in {400, 404, 500, 503} :
          /\ status' = code
          /\ stdout' = stdout \o <<Out("Finished getting request", <<>>),
                                   Out("Error", <<code>>)>>
    /\ exit_code' = 1
    /\ pc' = "exited"
    /\ UNCHANGED <<archive, use_pyvo, select_specified_rows, url, results, earth_units_flag, planet_data,
                   i, retval, exc, calls, prev>>

\* line 72: requests.get raises when the transport fails; nothing handles it
Get_TransportFailure ==
    /\ pc = "requesting"
    /\ exc' = "ConnectionError"
    /\ pc' = "raised"
    /\ UNCHANGED <<archive, use_pyvo, select_specified_rows, url, status, results, earth_units_flag,
                   planet_data, i, retval, exit_code, stdout, calls, prev>>

\* lines 154, 157 and 16-17: the pyvo method is chosen with an ADQL query
Main_GetVoExodataset ==
    /\ pc = "main"
    /\ \E cols \in SelectLists, n \in 0..MaxTop :
          /\ select_specified_rows' = n
          /\ url' = BuildUrl(cols, nasa_table, where_args, n)
    /\ use_pyvo' = TRUE
    /\ pc' = "vo_search"
    /\ UNCHANGED <<archive, status, results, earth_units_flag, planet_data, i,
                   retval, exc, exit_code, stdout, calls, prev>>

\* lines 20-25: the search succeeds and its result becomes an astropy table
Vo_Table ==
    /\ pc = "vo_search"
    /\ results' = [k \in DOMAIN Answer(url) |-> TableRow(Answer(url)[k], url.select.cols)]
    /\ pc' = "fetched"
    /\ UNCHANGED <<archive, use_pyvo, select_specified_rows, url, status, earth_units_flag, planet_data,
                   i, retval, exc, exit_code, stdout, calls, prev>>

\* line 20: tap_service.search raises when the service fails
Vo_SearchFailure ==
    /\ pc = "vo_search"
    /\ exc' = "DALServiceError"
    /\ pc' = "raised"
    /\ UNCHANGED <<archive, use_pyvo, select_specified_rows, url, status, results, earth_units_flag,
                   planet_data, i, retval, exit_code, stdout, calls, prev>>

\* ------------------------------------------------- calc_escape_velocity, the loop
\* the slip of line 117 that keeps one list across calls (a module-level list)
EnterCalcKeepList(flag) ==
    /\ earth_units_flag' = flag
    /\ planet_data' = planet_data
    /\ i' = 0
    /\ retval' = NoReturn
    /\ exc' = ""
    /\ calls' = calls + 1
    /\ pc' = "calc"

\* lines 90-117: entry of the function; planet_data is a fresh empty list
EnterCalc(flag) ==
    /\ earth_units_flag' = flag
    /\ planet_data' = <<>>
    /\ i' = 0
    /\ retval' = NoReturn
    /\ exc' = ""
    /\ calls' = calls + 1
    /\ pc' = "calc"

\* lines 158/161: the batch is handed to calc_escape_velocity
Calc_Call ==
    /\ pc = "fetched"
    /\ \E flag \in FlagValues : EnterCalc(flag)
    /\ UNCHANGED <<archive, use_pyvo, select_specified_rows, url, status, results, exit_code, stdout, prev>>

\* the slip of line 139 that inserts the entry at the front of the list
PrependEntry(list, entry) == <<entry>> \o list

\* line 139: the entry goes to the end of the list
AppendEntry(list, entry) == Append(list, entry)

\* lines 118-139: one iteration; the entry is appended or the exception ends
\* the call
Calc_Iteration ==
    /\ pc = "calc"
    /\ i < Len(results)
    /\ LET r == LoopBody(results[i + 1], earth_units_flag)
       IN  IF r.exc # ""
           THEN /\ exc' = r.exc
                /\ pc' = "raised"
                /\ UNCHANGED <<planet_data, i>>
           ELSE /\ planet_data' = AppendEntry(planet_data, r.val)
                /\ i' = i + 1
                /\ UNCHANGED <<exc, pc>>
    /\ UNCHANGED <<archive, use_pyvo, select_specified_rows, url, status, results, earth_units_flag,
                   retval, exit_code, stdout, calls, prev>>

\* line 141: the list is printed; the function ends without a return statement
Calc_Finish ==
    /\ pc = "calc"
    /\ i = Len(results)
    /\ stdout' = Append(stdout, Out("planet_data", planet_data))
    /\ retval' = ReturnNone
    /\ pc' = "returned"
    /\ UNCHANGED <<archive, use_pyvo, select_specified_rows, url, status, results, earth_units_flag,
                   planet_data, i, exc, exit_code, calls, prev>>

\* a caller invokes calc_escape_velocity once more with the same batch and flag
Calc_CallAgain ==
    /\ pc \in {"returned", "raised"}
    /\ calls >= 1
    /\ calls < MaxCalls
    /\ prev' = [pc |-> pc, data |-> planet_data, exc |-> exc, i |-> i]
    /\ EnterCalc(earth_units_flag)
    /\ UNCHANGED <<archive, use_pyvo, select_specified_rows, url, status, results, exit_code, stdout>>

Next ==
    \/ Main_GetExodataset
    \/ Get_Status200
    \/ Get_StatusError
    \/ Get_TransportFailure
    \/ Main_GetVoExodataset
    \/ Vo_Table
    \/ Vo_SearchFailure
    \/ Calc_Call
    \/ Calc_Iteration
    \/ Calc_Finish
    \/ Calc_CallAgain

Spec == Init /\ [][Next]_vars

\* ======================================================= properties
\* "the call": calc_escape_velocity has been entered and the position is in it
InCall == calls >= 1 /\ pc \in {"calc", "returned", "raised"}

IsBool(flag) == flag \in {"True", "False"}

\* the unit system a boolean flag names
EarthChosen == earth_units_flag = "True"
ChosenMassKey == IF EarthChosen THEN "pl_bmasse" ELSE "pl_bmassj"
ChosenRadiusKey == IF EarthChosen THEN "pl_rade" ELSE "pl_radj"

IsNumber(planet, key) == key \in DOMAIN planet /\ planet[key].t \in {"float", "np"}

\* the record lacks (absent, null, masked) the mass or the radius of the chosen system
Lacks(planet) == ~IsNumber(planet, ChosenMassKey) \/ ~IsNumber(planet, ChosenRadiusKey)

NonPositiveRadius(planet) ==
    IsNumber(planet, ChosenRadiusKey) /\ planet[ChosenRadiusKey].re.m <= 0

\* radius > 0 and mass >= 0, both present and numeric
Computable(planet) ==
    /\ ~Lacks(planet)
    /\ planet[ChosenRadiusKey].re.m > 0
    /\ planet[ChosenMassKey].re.m >= 0

\* how many of the first n records of the batch ...
CountNotLacking(n) == Cardinality({k \in 1..n : ~Lacks(results[k])})
CountPositiveRadius(n) == Cardinality({k \in 1..n : ~NonPositiveRadius(results[k])})
CountComputable(n) == Cardinality({k \in 1..n : Computable(results[k])})

\* every record of the batch has the keys of the chosen system (the caller
\* selected its columns)
KeysSelected ==
    \A k \in 1..Len(results) : {ChosenMassKey, ChosenRadiusKey} \subseteq DOMAIN results[k]

\* no record of the batch lacks a field of the chosen system
NoneLacking == \A k \in 1..Len(results) : ~Lacks(results[k])

\* two decimal floats agree to within about one percent
Close(a, b) ==
    \/ a.m = 0 /\ b.m = 0
    \/ a.e = b.e /\ Abs(a.m - b.m) <= 50
    \/ a.e = b.e + 1 /\ Abs(a.m * 10 - b.m) <= 500
    \/ b.e = a.e + 1 /\ Abs(b.m * 10 - a.m) <= 500

\* v (km/s) is the escape velocity of mass m*M (kg) and radius r*R (m):
\* (1000 v)^2 * r*R = 2 * G * m*M
IsEscapeVelocity(v, m, r, M, R) ==
    LET ms == FMul(v, Flt(1000, 0))
    IN  Close(FMul(FMul(ms, ms), FMul(r, R)),
              FMul(FMul(Flt(2, 0), Flt(6674, 0 - 14)), FMul(m, M)))

EarthM == Flt(597219, 19)
EarthR == Flt(6371, 3)
JupiterM == Flt(189813, 22)
JupiterR == Flt(69911, 3)

\* C1: a record that lacks the mass or radius of the chosen unit system is
\* skipped: the call never ends in an exception at such a record, no entry is
\* emitted for it, and a finished call has an entry for every computable record.
\* (Stated for batches that carry the chosen system's columns: the field is
\* null or masked.)
C1_MissingFieldIsSkipped ==
    (InCall /\ IsBool(earth_units_flag) /\ KeysSelected) =>
        /\ (pc = "raised" => ~Lacks(results[i + 1]))
        /\ Len(planet_data) <= CountNotLacking(i)
        /\ (pc = "returned" => Len(planet_data) >= CountComputable(Len(results)))

\* C2: a record whose radius is zero or negative is skipped: the call never
\* ends in an exception at such a record, no entry is emitted for it, and no
\* emitted velocity is NaN or infinite.  (Stated for batches in which no field
\* is missing, so that only the radius decides.)
C2_NonPositiveRadiusIsSkipped ==
    (InCall /\ IsBool(earth_units_flag) /\ NoneLacking) =>
        /\ (pc = "raised" => ~NonPositiveRadius(results[i + 1]))
        /\ Len(planet_data) <= CountPositiveRadius(i)
        /\ \A k \in 1..Len(planet_data) : planet_data[k][2].re.cls = "fin"

\* C3: calc_escape_velocity returns the list of [name, escape_velocity] pairs
\* it computed.
C3_ReturnsThePairs ==
    pc = "returned" => retval = [kind |-> "list", items |-> planet_data]

\* C4: the result list follows the input order: entry k is the entry of
\* record k, with that record's name and velocity; nothing is re-sorted and
\* records of equal name each have their entry.
C4_OrderPreserved ==
    InCall =>
        /\ Len(planet_data) = i
        /\ (pc = "returned" => i = Len(results))
        /\ \A k \in 1..Len(planet_data) :
              /\ planet_data[k][1] = results[k]["pl_name"]
              /\ planet_data[k] = LoopBody(results[k], earth_units_flag).val

C4_Witness ==
    /\ pc = "returned"
    /\ Len(planet_data) = 2
    /\ planet_data[1][1] = planet_data[2][1]
    /\ planet_data[1][2] # planet_data[2][2]

\* C5: under the Earth system every emitted velocity is sqrt(2 G m M_E / (r R_E)) / 1000
\* of the record's pl_bmasse m and pl_rade r, under the Jupiter system the same
\* of pl_bmassj, pl_radj and the Jupiter constants; the other system's fields
\* are not read: an exception comes only from a field of the chosen system.
C5_UnitSystemSelection ==
    (InCall /\ IsBool(earth_units_flag)) =>
        /\ \A k \in 1..Len(planet_data) :
              Computable(results[k]) =>
                 IsEscapeVelocity(planet_data[k][2].re,
                                  results[k][ChosenMassKey].re,
                                  results[k][ChosenRadiusKey].re,
                                  IF EarthChosen THEN EarthM ELSE JupiterM,
                                  IF EarthChosen THEN EarthR ELSE JupiterR)
        /\ (pc = "raised" => Lacks(results[i + 1]) \/ NonPositiveRadius(results[i + 1]))

\* a Jupiter-system entry of a record whose Earth mass is null
C5_Witness ==
    /\ pc = "returned"
    /\ earth_units_flag = "False"
    /\ \E k \in 1..Len(planet_data) :
          /\ results[k]["pl_bmasse"].t = "None"
          /\ Computable(results[k])
          /\ planet_data[k][2].re.m > 0

\* C6: with a unit-system argument that is neither of the two recognized
\* values the call fails with an invalid-argument error before any record is
\* read; no result is emitted.
C6_InvalidUnitSystemRejected ==
    (InCall /\ ~IsBool(earth_units_flag)) =>
        /\ i = 0
        /\ planet_data = <<>>
        /\ pc # "returned"
        /\ (pc = "raised" => exc = "InvalidArgument")

\* C6 (amended): the argument is used as a truth value and never rejected: a
\* true object ("Saturn") selects the Earth fields and constants, a false one
\* (None) the Jupiter ones, and the records are processed as usual.
C6_FlagUsedAsTruthValue ==
    (InCall /\ ~IsBool(earth_units_flag)) =>
        LET earth == earth_units_flag = "Saturn"
            mk == IF earth THEN "pl_bmasse" ELSE "pl_bmassj"
            rk == IF earth THEN "pl_rade" ELSE "pl_radj"
            Good(planet) == /\ IsNumber(planet, mk) /\ IsNumber(planet, rk)
                            /\ planet[rk].re.m > 0 /\ planet[mk].re.m >= 0
        IN  /\ exc # "InvalidArgument"
            /\ (pc = "raised" => ~Good(results[i + 1]))
            /\ (pc = "returned" => i = Len(results))
            /\ \A k \in 1..Len(planet_data) :
                  Good(results[k]) =>
                     IsEscapeVelocity(planet_data[k][2].re, results[k][mk].re,
                                      results[k][rk].re,
                                      IF earth THEN EarthM ELSE JupiterM,
                                      IF earth THEN EarthR ELSE JupiterR)

C6_Witness ==
    /\ pc = "returned"
    /\ earth_units_flag = "Saturn"
    /\ Len(planet_data) >= 1
    /\ planet_data[1][2].re.cls = "fin"
    /\ planet_data[1][2].re.m > 0

\* C7: a response of get_exodataset with a status other than 200 is reported
\* and ends the program with exit code 1: calc_escape_velocity is not run on an
\* empty or partial batch, and under the requests method it runs only after a
\* response with status 200.
C7_FailedRetrievalAborts ==
    /\ (status \notin {0, 200} =>
           /\ pc = "exited"
           /\ exit_code = 1
           /\ stdout[Len(stdout)] = Out("Error", <<status>>)
           /\ calls = 0
           /\ results = <<>>
           /\ planet_data = <<>>
           /\ ~ENABLED Next)
    /\ (pc = "exited" => status \notin {0, 200})
    /\ ((calls >= 1 /\ ~use_pyvo) => status = 200)

C7_Witness == pc = "exited" /\ status = 503 /\ Len(archive) >= 1

\* C8: with a limit N below the size of the table only its first N records
\* reach the calculator and at most N results are produced; with the default 0
\* every record does.
C8_BatchLimit ==
    (pc \in {"fetched", "calc", "returned"} \/ InCall) =>
        LET N == select_specified_rows
            size == IF N # 0 /\ N < Len(archive) THEN N ELSE Len(archive)
        IN  /\ Len(results) = size
            /\ \A k \in 1..size : results[k]["pl_name"] = archive[k].pl_name
            /\ i <= size
            /\ Len(planet_data) <= size
            /\ (pc = "returned" => i = size)

C8_Witness ==
    /\ pc = "returned"
    /\ select_specified_rows = 1
    /\ Len(archive) = 2
    /\ Len(planet_data) = 1
    /\ planet_data[1][1] = archive[1].pl_name

\* the batch as the retrieval function produced it
FetchedBatch ==
    [k \in DOMAIN Answer(url) |->
        IF use_pyvo THEN TableRow(Answer(url)[k], url.select.cols)
        ELSE JsonRow(Answer(url)[k], url.select.cols)]

\* C9: a second call with the same records and flag ends as the first did,
\* with the same list (and prints the same), and no call changes the records.
C9_Idempotent ==
    InCall =>
        /\ results = FetchedBatch
        /\ ((calls >= 2 /\ pc \in {"returned", "raised"}) =>
               /\ prev.pc = pc
               /\ prev.data = planet_data
               /\ prev.exc = exc
               /\ prev.i = i)
        /\ ((calls >= 2 /\ pc = "returned") =>
               stdout[Len(stdout)] = stdout[Len(stdout) - 1])

C9_Witness ==
    /\ calls = 2
    /\ pc = "returned"
    /\ Len(planet_data) >= 1
    /\ prev.pc = "returned"

====
